---------------------------- MODULE Spec2Model ----------------------------
(***************************************************************************)
(* A model of larousse-searcher (src/lib/utils.js).                        *)
(*                                                                         *)
(* JavaScript strings are modelled as sequences of characters, a character *)
(* being a one-letter TLA+ string, so that endsWith, split, trim, includes *)
(* and replace are computed and not assumed.  A DOM node (domhandler) is a *)
(* record of uniform shape: type ("text" or "tag"), class (attribs.class), *)
(* data (a text node's data), children (a tag's child nodes) and href      *)
(* (attribs.href).  prev/next links are positions in the parent's child    *)
(* list.  A JavaScript exception is a value Throw(e); a normal completion  *)
(* is Ok(v).                                                               *)
(***************************************************************************)
EXTENDS Integers, Sequences, FiniteSets, TLC

VARIABLES
    word,           \* search: the argument `word`
    spc,            \* search: "awaiting" (at `await getPage`) or "settled"
    fetched,        \* search: what axios.get settled with
    outcome,        \* search: how the promise returned by search settled
    textSiblings,   \* getTextOnyms: <<onymsTextElem>> or <<onymsTextElem, next>>
    textOnyms,      \* getTextOnyms: its completion
    onymSiblings,   \* getDefinitionOnyms: child list holding onymContent last
    onyms,          \* getDefinitionOnyms: its completion
    defContent,     \* getDefinition: the children of the container
    idx,            \* getDefinition: position of the forEach callback
    definition,     \* getDefinition: the object being filled
    dpc             \* getDefinition: "loop", "done" or "thrown"

searchVars == <<word, spc, fetched, outcome>>
textVars == <<textSiblings, textOnyms>>
onymVars == <<onymSiblings, onyms>>
defVars == <<defContent, idx, definition, dpc>>
vars == <<word, spc, fetched, outcome, textSiblings, textOnyms,
          onymSiblings, onyms, defContent, idx, definition, dpc>>

---------------------------------------------------------------------------
(* Bounds of the model. *)

MaxWordLen == 2
MaxUrlLen == 4
MaxRunLen == 5
MaxOnymChildren == 2
MaxDefChildren == 4

---------------------------------------------------------------------------
(* JavaScript values and strings. *)

NL == "\n"
NBSP == "~"     \* stands for U+00A0, the no-break space

JsNull == [t |-> "null"]
EmptyObject == [k \in {} |-> k]

Ok(v) == [ok |-> TRUE, val |-> v, err |-> ""]
Throw(e) == [ok |-> FALSE, val |-> <<>>, err |-> e]

SeqsUpTo(S, n) == UNION {[1..k -> S] : k \in 0..n}

IsSpace(c) == c \in {" ", NL, NBSP}

RECURSIVE TrimStart(_)
TrimStart(s) ==
    IF s # <<>> /\ IsSpace(Head(s)) THEN TrimStart(Tail(s)) ELSE s

RECURSIVE TrimEnd(_)
TrimEnd(s) ==
    IF s # <<>> /\ IsSpace(s[Len(s)]) THEN TrimEnd(SubSeq(s, 1, Len(s) - 1)) ELSE s

Trim(s) == TrimEnd(TrimStart(s))

StartsWith(s, p) == Len(p) <= Len(s) /\ SubSeq(s, 1, Len(p)) = p

EndsWith(s, p) == Len(p) <= Len(s) /\ SubSeq(s, Len(s) - Len(p) + 1, Len(s)) = p

\* The first position at which p occurs in s, 0 when it does not.
IndexOf(s, p) ==
    LET hits == {i \in 1..(Len(s) - Len(p) + 1) : SubSeq(s, i, i + Len(p) - 1) = p}
    IN IF hits = {} THEN 0 ELSE CHOOSE i \in hits : \A j \in hits : i <= j

Includes(s, p) == IndexOf(s, p) # 0

\* String.prototype.split with a non-empty separator.
RECURSIVE Split(_, _)
Split(s, sep) ==
    LET i == IndexOf(s, sep)
    IN IF i = 0 THEN <<s>>
       ELSE <<SubSeq(s, 1, i - 1)>> \o Split(SubSeq(s, i + Len(sep), Len(s)), sep)

\* String.prototype.replace with a string pattern: the first occurrence only.
ReplaceFirst(s, p, r) ==
    LET i == IndexOf(s, p)
    IN IF i = 0 THEN s
       ELSE SubSeq(s, 1, i - 1) \o r \o SubSeq(s, i + Len(p), Len(s))

\* replace(/\(|\)/g, "")
RECURSIVE StripParens(_)
StripParens(s) ==
    IF s = <<>> THEN <<>>
    ELSE IF Head(s) \in {"(", ")"} THEN StripParens(Tail(s))
    ELSE <<Head(s)>> \o StripParens(Tail(s))

---------------------------------------------------------------------------
(* DOM nodes. *)

Text(d) == [type |-> "text", class |-> "", data |-> d, children |-> <<>>, href |-> <<>>]
Tag(c, ch) == [type |-> "tag", class |-> c, data |-> <<>>, children |-> ch, href |-> <<>>]
Link(h, ch) == [type |-> "tag", class |-> "", data |-> <<>>, children |-> ch, href |-> h]

\* node.children[0].data of a tag: a TypeError when there is no first child,
\* undefined when the first child is itself a tag.
Undefined == [ok |-> TRUE, val |-> <<>>, err |-> "undefined"]
IsUndefined(r) == r.err = "undefined"

FirstChildData(node) ==
    IF node.children = <<>> THEN Throw("TypeError")
    ELSE IF node.children[1].type = "text" THEN Ok(node.children[1].data)
    ELSE Undefined

\* The two base URLs.  Their scheme, host and directory names are written
\* as one character each: no operation of the code looks inside them.
LAROUSSE_URL == <<"https:", "/", "/", "www.larousse.fr", "/">>
DICTIONNARY_URL ==
    <<"https:", "/", "/", "www.larousse.fr", "/", "dictionnaires", "/", "francais", "/">>

\* url.resolve for the two shapes of reference the pages use: a path that
\* starts with "/" replaces the base's path, any other is appended to the
\* base's directory (both bases end with "/").
resolve(base, ref) ==
    IF StartsWith(ref, <<"/">>) THEN SubSeq(base, 1, 4) \o ref ELSE base \o ref

---------------------------------------------------------------------------
(* Propagation of exceptions: a statement that follows a throwing one does *)
(* not run.                                                                *)

\* r, then K on its value.
Bind(r, K(_)) == IF r.ok THEN K(r.val) ELSE r

\* The value of r, which must not be undefined: a property of it is read.
Defined(r) == IF r.ok /\ IsUndefined(r) THEN Throw("TypeError") ELSE r

\* The list that holds r's value and then rest's values (push, then go on).
ConsOk(r, rest) ==
    IF ~r.ok THEN r ELSE IF ~rest.ok THEN rest ELSE Ok(<<r.val>> \o rest.val)

\* The list of r's values and then rest's (concat, then go on).
ConcatOk(r, rest) ==
    IF ~r.ok THEN r ELSE IF ~rest.ok THEN rest ELSE Ok(r.val \o rest.val)

---------------------------------------------------------------------------
(* getTextOnyms, utils.js 190-204.  sib is the child list that holds the   *)
(* text node at position j; sib[j + 1], when there is one, is its `next`.  *)

DashSep == <<" ", "-", " ">>

IsIndicateur(node) == node.type = "tag" /\ node.class = "indicateurDefinition"

\* Lines 197-198: does this fragment take the info of the following marker?
TakesInfo(frag, list, sib, j) ==
    /\ frag = list[Len(list)]
    /\ j < Len(sib)
    /\ IsIndicateur(sib[j + 1])

\* Lines 194-199: the onym of a fragment that is not "".
TextOnym(frag, list, sib, j) ==
    IF TakesInfo(frag, list, sib, j)
    THEN Bind(Defined(FirstChildData(sib[j + 1])),
              LAMBDA data : Ok([word |-> Trim(frag), info |-> Trim(StripParens(data))]))
    ELSE Ok([word |-> Trim(frag)])

\* Lines 193-202, the forEach over the fragments from position k on.
RECURSIVE TextOnymsFrom(_, _, _, _)
TextOnymsFrom(list, k, sib, j) ==
    IF k > Len(list) THEN Ok(<<>>)
    ELSE IF list[k] = <<>> THEN TextOnymsFrom(list, k + 1, sib, j)
    ELSE ConsOk(TextOnym(list[k], list, sib, j), TextOnymsFrom(list, k + 1, sib, j))

getTextOnyms(sib, j) == TextOnymsFrom(Split(sib[j].data, DashSep), 1, sib, j)

---------------------------------------------------------------------------
(* getDefinitionOnyms, utils.js 164-182.  sib is the child list of the     *)
(* definition container and i the position of onymContent in it, so that   *)
(* onymContent.prev.prev is sib[i - 2].                                    *)

SynonymeLabel == <<"S", "y", "n", "o", "n", "y", "m", "e", " ", ":">>
SynonymesLabel == <<"S", "y", "n", "o", "n", "y", "m", "e", "s", " ", ":">>

\* onymContent.prev.prev.children[0].data
PrevPrevData(sib, i) ==
    IF i - 2 < 1 THEN Throw("TypeError")
    ELSE IF sib[i - 2].type = "text" THEN Throw("TypeError")
    ELSE FirstChildData(sib[i - 2])

\* Line 169.
OnymsTypeSingularOnly(label) ==
    IF ~IsUndefined(label) /\ label.val = SynonymeLabel THEN "synonyms" ELSE "antonyms"

OnymsType(label) ==
    IF ~IsUndefined(label) /\ label.val \in {SynonymeLabel, SynonymesLabel}
    THEN "synonyms" ELSE "antonyms"

\* Lines 174-177: the onym of a class "Renvois" child.
RenvoisOnym(child) ==
    IF child.children = <<>> THEN Throw("TypeError")
    ELSE LET a == child.children[1]
             text == FirstChildData(a)
         IN IF a.type = "text" \/ ~text.ok THEN Throw("TypeError")
            ELSE Ok([word |-> IF IsUndefined(text) THEN JsNull ELSE text.val,
                     url |-> resolve(LAROUSSE_URL, a.href)])

\* Lines 171-179: what one child adds to onyms.list.
ChildOnyms(ch, k) ==
    IF ch[k].type = "text" /\ ch[k].data # DashSep THEN getTextOnyms(ch, k)
    ELSE IF ch[k].type = "tag" /\ ch[k].class = "Renvois"
    THEN ConsOk(RenvoisOnym(ch[k]), Ok(<<>>))
    ELSE Ok(<<>>)

\* Lines 170-180, the forEach over onymContent.children from position k on.
RECURSIVE OnymsListFrom(_, _)
OnymsListFrom(ch, k) ==
    IF k > Len(ch) THEN Ok(<<>>)
    ELSE ConcatOk(ChildOnyms(ch, k), OnymsListFrom(ch, k + 1))

getDefinitionOnyms(sib, i) ==
    IF ~PrevPrevData(sib, i).ok THEN PrevPrevData(sib, i)
    ELSE Bind(OnymsListFrom(sib[i].children, 1),
              LAMBDA list : Ok([type |-> OnymsType(PrevPrevData(sib, i)), list |-> list]))

---------------------------------------------------------------------------
(* getDefinition, utils.js 131-157.                                        *)

JsString(s) == [t |-> "string", v |-> s]

\* Lines 132-138.
NewDefinition ==
    [num |-> JsNull, definition |-> <<>>, examples |-> <<>>,
     synonyms |-> <<>>, antonyms |-> <<>>]

\* Line 140: the text nodes that are appended to definition.definition.
IsDefinitionText(child) ==
    child.type = "text" /\ ~Includes(child.data, <<NL>>) /\ Trim(child.data) # <<>>

\* Line 151, definition[onyms.type] = onyms.list
AssignOnymsAccumulating(def, o) ==
    IF o.type = "synonyms" THEN [def EXCEPT !.synonyms = @ \o o.list]
    ELSE [def EXCEPT !.antonyms = @ \o o.list]

AssignOnyms(def, o) ==
    IF o.type = "synonyms" THEN [def EXCEPT !.synonyms = o.list]
    ELSE [def EXCEPT !.antonyms = o.list]

\* Line 146: child.children[0].children[0].data
RenvoisText(child) ==
    IF child.children = <<>> \/ child.children[1].type = "text" THEN Throw("TypeError")
    ELSE Defined(FirstChildData(child.children[1]))

\* Lines 140-153: one call of the forEach callback, on sib[i].
DefinitionStep(def, sib, i) ==
    IF IsDefinitionText(sib[i])
    THEN Ok([def EXCEPT !.definition = @ \o sib[i].data])
    ELSE IF sib[i].type # "tag" THEN Ok(def)
    ELSE IF sib[i].class = "numDef"
    THEN Bind(Defined(FirstChildData(sib[i])),
              LAMBDA data : Ok([def EXCEPT !.num = JsString(Split(Trim(data), <<".">>)[1])]))
    ELSE IF sib[i].class = "Renvois"
    THEN Bind(RenvoisText(sib[i]),
              LAMBDA data : Ok([def EXCEPT !.definition = @ \o Trim(data)]))
    ELSE IF sib[i].class = "ExempleDefinition"
    THEN Bind(Defined(FirstChildData(sib[i])),
              LAMBDA data : Ok([def EXCEPT !.examples = Append(@, Trim(data))]))
    ELSE IF sib[i].class = "Synonymes"
    THEN Bind(getDefinitionOnyms(sib, i), LAMBDA o : Ok(AssignOnyms(def, o)))
    ELSE Ok(def)

\* Line 155.
FinishDefinition(def) ==
    [def EXCEPT !.definition = Trim(ReplaceFirst(@, <<NBSP, ":">>, <<>>))]

\* Lines 139-154, the forEach from position i on.
RECURSIVE DefinitionLoop(_, _, _)
DefinitionLoop(def, sib, i) ==
    IF i > Len(sib) THEN Ok(def)
    ELSE Bind(DefinitionStep(def, sib, i), LAMBDA d : DefinitionLoop(d, sib, i + 1))

getDefinition(defContent_) ==
    Bind(DefinitionLoop(NewDefinition, defContent_.children, 1),
         LAMBDA d : Ok(FinishDefinition(d)))

---------------------------------------------------------------------------
(* The page-level extractors, utils.js 13-123 and 213-221.  `content` is   *)
(* the loaded page, given by what each selector of the code matches in it: *)
(*   h2         ".Zone-Entree1 > h2"                                       *)
(*   catgram    ".Zone-Entree1 > .CatgramDefinition"                       *)
(*   origine    ".Zone-Entree1 > .OrigineDefinition"                       *)
(*   divisions  ".Definitions:first-of-type > .DivisionDefinition"         *)
(*   corrector  ".corrector > ul > li > h3 > a"                            *)
(*   others     the two ".wrapper-search ..." selectors of line 46-47      *)

\* Lines 13-23.  axios.get settles with a response, rejects with an error
\* that carries the server's response, or rejects with one that carries none
\* (no connection): reading error.response.status then throws in the catch.
getPage(fetch) ==
    IF fetch.kind = "response" THEN Ok(fetch)
    ELSE IF fetch.kind = "httpError" THEN Throw("Error: Failed to fetch page")
    ELSE Throw("TypeError")

\* Lines 30-35.
getWordLastElement(url) ==
    LET parts == Split(url, <<"/">>)
    IN Ok(parts[Len(parts)])

getWord(url) ==
    LET parts == Split(url, <<"/">>)
    IN IF Len(parts) - 1 < 1 THEN Throw("Error: Invalid argument")
       ELSE Ok(parts[Len(parts) - 1])

\* Lines 50-53: the suggestion of one matched link.
Suggestion(link) ==
    Bind(Defined(FirstChildData(link)),
         LAMBDA data : Ok([word |-> Trim(data), url |-> resolve(LAROUSSE_URL, link.href)]))

\* Lines 49-55, the each() over the matched links from position k on.
RECURSIVE SuggestionsFrom(_, _)
SuggestionsFrom(links, k) ==
    IF k > Len(links) THEN Ok(<<>>)
    ELSE ConsOk(Suggestion(links[k]), SuggestionsFrom(links, k + 1))

\* Lines 43-57.
getSuggestions(content, exist) ==
    SuggestionsFrom(IF exist THEN content.others ELSE content.corrector, 1)

\* Lines 64-67.
getGramCat(content) ==
    IF content.catgram = <<>> THEN Throw("TypeError")
    ELSE Bind(Defined(FirstChildData(content.catgram[1])), LAMBDA data : Ok(Trim(data)))

\* Lines 78-81: the spellings of one h2, its children from position k on.
RECURSIVE WordsCatFrom(_, _)
WordsCatFrom(ch, k) ==
    IF k > Len(ch) THEN <<>>
    ELSE (IF ch[k].type = "text" /\ ~Includes(ch[k].data, <<NL>>)
          THEN Split(Trim(ch[k].data), <<",", " ">>) ELSE <<>>)
         \o WordsCatFrom(ch, k + 1)

\* Lines 74-85.
getWords(content) == [n \in 1..Len(content.h2) |-> WordsCatFrom(content.h2[n].children, 1)]

\* Lines 97-104: what one child adds to origin.
OriginOf(c) ==
    IF c.type = "text" THEN Ok(StripParens(c.data))
    ELSE IF c.children = <<>> THEN Throw("TypeError")
    ELSE IF c.children[1].type = "tag"
    THEN Bind(Defined(FirstChildData(c.children[1])), LAMBDA data : Ok(StripParens(data)))
    ELSE Ok(StripParens(c.children[1].data))

\* Lines 96-105, the forEach over the origin's children from position k on.
RECURSIVE OriginFrom(_, _)
OriginFrom(ch, k) ==
    IF k > Len(ch) THEN Ok(<<>>)
    ELSE ConcatOk(OriginOf(ch[k]), OriginFrom(ch, k + 1))

\* Lines 92-108.
getOrigin(content) ==
    IF content.origine = <<>> THEN Ok(<<>>)
    ELSE Bind(OriginFrom(content.origine[1].children, 1), LAMBDA o : Ok(Trim(o)))

\* Lines 116-123, the each() over the containers from position k on.
RECURSIVE DefinitionsListFrom(_, _)
DefinitionsListFrom(divs, k) ==
    IF k > Len(divs) THEN Ok(<<>>)
    ELSE ConsOk(getDefinition(divs[k]), DefinitionsListFrom(divs, k + 1))

getDefinitionsList(content) == DefinitionsListFrom(content.divisions, 1)

\* Lines 213-221.
getDefinitions(content) ==
    Bind(getGramCat(content), LAMBDA gramCat :
        Bind(getOrigin(content), LAMBDA origin :
            Bind(getDefinitionsList(content), LAMBDA list :
                Ok([words |-> getWords(content), gramCat |-> gramCat,
                    origin |-> origin, list |-> list]))))

---------------------------------------------------------------------------
(* search, utils.js 231-254.                                               *)

\* Line 236.
FindByLastSegment(url, w) ==
    LET parts == Split(url, <<"/">>)
    IN parts[Len(parts)] # w

Find(url, w) == ~EndsWith(url, w)

\* Line 237.
WordFind(find, url, w) == IF find THEN getWord(url) ELSE Ok(w)

\* Line 238.
DefinitionsAlways(find, content) == getDefinitions(content)

Definitions(find, content) == IF find THEN getDefinitions(content) ELSE Ok(EmptyObject)

\* Lines 235-249: the try block after the page has been loaded.
SearchPage(w, url, content) ==
    Bind(WordFind(Find(url, w), url, w), LAMBDA wordFind :
        Bind(Definitions(Find(url, w), content), LAMBDA definitions :
            Bind(getSuggestions(content, Find(url, w)), LAMBDA suggestions :
                Ok([find |-> Find(url, w), word |-> wordFind, url |-> url,
                    definitions |-> definitions, suggestions |-> suggestions]))))

\* Lines 233-249, the body of the try block once axios.get has settled.
SearchBody(w, fetch) ==
    Bind(getPage(fetch), LAMBDA page : SearchPage(w, page.responseUrl, page.data))

\* Lines 250-253: the error the catch block throws.
SearchError(w, cause) == [message |-> w, cause |-> cause]

\* How the promise of an async function settles, from its completion.
Settle(r) ==
    IF r.ok THEN [status |-> "fulfilled", value |-> r.val, error |-> JsNull]
    ELSE [status |-> "rejected", value |-> JsNull, error |-> r.err]

\* Lines 232 and 250-253: try { body } catch (error) { throw new Error(...) }
TryCatch(body, w) == IF body.ok THEN body ELSE Throw(SearchError(w, body.err))

\* Lines 231-254.
RawError(body) == IF body.ok THEN body ELSE Throw([name |-> body.err])

searchWithoutCatch(w, fetch) == Settle(RawError(SearchBody(w, fetch)))

search(w, fetch) == Settle(TryCatch(SearchBody(w, fetch), w))

---------------------------------------------------------------------------
(* The state before a function is applied, and the values its variables    *)
(* keep in the specifications of the other functions.                      *)

Pending == [ok |-> FALSE, val |-> <<>>, err |-> "pending"]
PendingOutcome == [status |-> "pending", value |-> JsNull, error |-> JsNull]
NoPage ==
    [h2 |-> <<>>, catgram |-> <<>>, origine |-> <<>>, divisions |-> <<>>,
     corrector |-> <<>>, others |-> <<>>]
NoFetch == [kind |-> "none", responseUrl |-> <<>>, data |-> NoPage]

SearchIdle == word = <<>> /\ spc = "idle" /\ fetched = NoFetch /\ outcome = PendingOutcome
TextIdle == textSiblings = <<>> /\ textOnyms = Pending
OnymIdle == onymSiblings = <<>> /\ onyms = Pending
DefIdle == defContent = <<>> /\ idx = 0 /\ definition = NewDefinition /\ dpc = "idle"

---------------------------------------------------------------------------
(* Specification SpecSearch: one call of search.  The word is the caller's, *)
(* the resolved URL and the page are the server's.                          *)

WordChars == {"a", "b"}
UrlChars == {"a", "b", "/"}
Words == SeqsUpTo(WordChars, MaxWordLen) \ {<<>>}
UrlTails == SeqsUpTo(UrlChars, MaxUrlLen)
\* The resolved URL is the server's: a URL of the dictionary, or (to reach
\* the guard of getWord, line 32) a string with no slash at all.
Urls ==
    {resolve(DICTIONNARY_URL, t) : t \in {u \in UrlTails : ~StartsWith(u, <<"/">>)}}
        \cup {u \in UrlTails : ~Includes(u, <<"/">>)}

ALink == Link(<<"/", "x">>, <<Text(<<" ", "x", " ">>)>>)
GoodDivision ==
    Tag("DivisionDefinition",
        <<Tag("numDef", <<Text(<<"1", ".">>)>>), Text(<<"d">>)>>)
BadDivision == Tag("DivisionDefinition", <<Tag("numDef", <<>>)>>)
Catgram == Tag("CatgramDefinition", <<Text(<<" ", "n", ".", " ">>)>>)
Origine ==
    Tag("OrigineDefinition",
        <<Text(<<"(", "l", " ">>), Tag("", <<Text(<<"x">>)>>), Text(<<")">>)>>)
H2 == Tag("", <<Text(<<NL>>), Text(<<"a", ",", " ", "b">>)>>)

Pages ==
    { [NoPage EXCEPT !.h2 = <<H2>>, !.catgram = <<Catgram>>, !.origine = <<Origine>>,
                     !.divisions = <<GoodDivision>>, !.others = <<ALink>>],
      [NoPage EXCEPT !.catgram = <<Catgram>>],
      [NoPage EXCEPT !.h2 = <<H2>>, !.divisions = <<GoodDivision>>],
      [NoPage EXCEPT !.catgram = <<Tag("CatgramDefinition", <<>>)>>],
      [NoPage EXCEPT !.catgram = <<Catgram>>, !.divisions = <<BadDivision>>],
      [NoPage EXCEPT !.corrector = <<ALink, ALink>>],
      NoPage }

InitSearch ==
    /\ word \in Words
    /\ spc = "awaiting"
    /\ fetched = NoFetch
    /\ outcome = PendingOutcome
    /\ TextIdle /\ OnymIdle /\ DefIdle

\* axios.get resolves: the rest of the try block runs and the promise settles.
FetchFulfilled(url, page) ==
    /\ spc = "awaiting"
    /\ fetched' = [kind |-> "response", responseUrl |-> url, data |-> page]
    /\ outcome' = search(word, fetched')
    /\ spc' = "settled"
    /\ UNCHANGED <<word, textVars, onymVars, defVars>>

\* axios.get rejects, with or without a response of the server.
FetchRejected(kind) ==
    /\ spc = "awaiting"
    /\ fetched' = [NoFetch EXCEPT !.kind = kind]
    /\ outcome' = search(word, fetched')
    /\ spc' = "settled"
    /\ UNCHANGED <<word, textVars, onymVars, defVars>>

NextSearch ==
    \/ \E url \in Urls, page \in Pages : FetchFulfilled(url, page)
    \/ \E kind \in {"httpError", "networkError"} : FetchRejected(kind)

SpecSearch == InitSearch /\ [][NextSearch]_vars

Fulfilled == spc = "settled" /\ outcome.status = "fulfilled"
Rejected == spc = "settled" /\ outcome.status = "rejected"

\* The last path segment of url, a trailing slash ignored.
LastSegment(url) ==
    LET u == IF EndsWith(url, <<"/">>) THEN SubSeq(url, 1, Len(url) - 1) ELSE url
        parts == Split(u, <<"/">>)
    IN parts[Len(parts)]

\* C1 as stated: found is false exactly when the last path segment of the
\* resolved URL, a trailing slash ignored, equals the requested word.
C1_FoundIffLastSegmentDiffers ==
    Fulfilled => (outcome.value.find <=> LastSegment(fetched.responseUrl) # word)

\* C1 amended: found is false exactly when the resolved URL, as a whole
\* string, ends with the requested word; so a word that is only a proper
\* suffix of the last segment is classified as not found, and a URL that
\* ends with a slash is found for every non-empty word.
C1_FoundIffUrlDoesNotEndWithWord ==
    Fulfilled =>
        (outcome.value.find <=>
            ~\E k \in 0..Len(fetched.responseUrl) :
                /\ k + Len(word) = Len(fetched.responseUrl)
                /\ \A n \in 1..Len(word) : fetched.responseUrl[k + n] = word[n])

C1_Witness ==
    /\ Fulfilled
    /\ ~outcome.value.find
    /\ LastSegment(fetched.responseUrl) # word
    /\ EndsWith(LastSegment(fetched.responseUrl), word)

\* The positions of the slashes of url.
Slashes(url) == {i \in 1..Len(url) : url[i] = "/"}
MaxOf(S) == CHOOSE i \in S : \A j \in S : j <= i

\* What lies between the last slash of url and the slash before it (or the
\* start of url), when url has a slash.
BeforeLastSlash(url) ==
    LET last == MaxOf(Slashes(url))
        before == {i \in Slashes(url) : i < last}
        from == IF before = {} THEN 0 ELSE MaxOf(before)
    IN SubSeq(url, from + 1, last - 1)

\* C2 as stated: a found result's word is the last path segment of the
\* resolved URL (a trailing slash ignored), a not-found result's word is the
\* requested word.
C2_WordIsLastSegment ==
    Fulfilled =>
        outcome.value.word =
            IF outcome.value.find THEN LastSegment(fetched.responseUrl) ELSE word

\* C2 amended: a found result's word is what lies between the last slash of
\* the resolved URL and the slash before it, that is the second-to-last path
\* segment when the URL does not end with a slash and the last one when it
\* does; a not-found result's word is the requested word unchanged.
C2_WordIsBeforeLastSlash ==
    Fulfilled =>
        /\ outcome.value.find => Slashes(fetched.responseUrl) # {}
        /\ outcome.value.word =
            IF outcome.value.find THEN BeforeLastSlash(fetched.responseUrl) ELSE word

C2_Witness ==
    /\ Fulfilled
    /\ outcome.value.find
    /\ ~EndsWith(fetched.responseUrl, <<"/">>)
    /\ outcome.value.word # <<>>
    /\ outcome.value.word # LastSegment(fetched.responseUrl)

EntryFields == {"words", "gramCat", "origin", "list"}

\* C3 as stated: the definitions field of a result is non-null exactly when
\* find is true.
C3_EntryNonNullIffFound ==
    Fulfilled => (outcome.value.definitions # JsNull <=> outcome.value.find)

\* C3 amended: the definitions field of a result is never null; it is the
\* populated object (words, gramCat, origin, list) exactly when find is true
\* and the empty object {} when find is false.
C3_EntryPopulatedIffFound ==
    Fulfilled =>
        /\ outcome.value.definitions # JsNull
        /\ DOMAIN outcome.value.definitions =
                IF outcome.value.find THEN EntryFields ELSE {}

C3_Witness ==
    /\ Fulfilled
    /\ ~outcome.value.find
    /\ outcome.value.definitions = EmptyObject
    /\ fetched.data.catgram # <<>>

\* The stages C4 names, read off the inputs, and the error each throws.
FetchFails == fetched.kind \in {"httpError", "networkError"}
PageFound == fetched.kind = "response" /\ ~EndsWith(fetched.responseUrl, word)
NoCanonicalWord == PageFound /\ Slashes(fetched.responseUrl) = {}
NoCategoryMarker == PageFound /\ fetched.data.catgram = <<>>
StageFails == FetchFails \/ NoCanonicalWord \/ NoCategoryMarker
StageError ==
    IF fetched.kind = "httpError" THEN "Error: Failed to fetch page"
    ELSE IF fetched.kind = "networkError" THEN "TypeError"
    ELSE IF NoCanonicalWord THEN "Error: Invalid argument"
    ELSE "TypeError"

\* C4: when the fetch fails, the word cannot be derived from the URL or the
\* category marker is absent on a found page, search returns nothing and
\* rejects with the one wrapping error, which carries the requested word and
\* the underlying error as its cause; every rejection is that wrapping error
\* and carries no result, and every found result carries a complete entry.
C4_AllOrNothing ==
    spc = "settled" =>
        /\ StageFails =>
            /\ outcome.status = "rejected"
            /\ outcome.error = SearchError(word, StageError)
        /\ outcome.status = "rejected" =>
            /\ outcome.value = JsNull
            /\ DOMAIN outcome.error = {"message", "cause"}
            /\ outcome.error.message = word
        /\ outcome.status = "fulfilled" =>
            /\ outcome.error = JsNull
            /\ outcome.value.find => DOMAIN outcome.value.definitions = EntryFields

C4_Witness ==
    /\ Rejected
    /\ NoCategoryMarker
    /\ ~NoCanonicalWord
    /\ outcome.error.cause = "TypeError"

---------------------------------------------------------------------------
(* Specification SpecTextOnyms: getTextOnyms applied to one text node of a *)
(* class "Synonymes" element and to the node that follows it, if any.      *)

RunChars == {"a", "b", " ", "-"}
Runs == SeqsUpTo(RunChars, MaxRunLen)

Indicateur == Tag("indicateurDefinition", <<Text(<<" ", "(", "f", "a", "m", ".", ")">>)>>)
RenvoisC == Tag("Renvois", <<Link(<<"/", "c">>, <<Text(<<"c">>)>>)>>)
NextNodes == {Indicateur, Tag("indicateurDefinition", <<>>), RenvoisC}

InitTextOnyms ==
    /\ textSiblings \in
            {<<Text(r)>> : r \in Runs} \cup {<<Text(r), n>> : r \in Runs, n \in NextNodes}
    /\ textOnyms = Pending
    /\ SearchIdle /\ OnymIdle /\ DefIdle

ApplyGetTextOnyms ==
    /\ textOnyms = Pending
    /\ textOnyms' = getTextOnyms(textSiblings, 1)
    /\ UNCHANGED <<textSiblings, searchVars, onymVars, defVars>>

NextTextOnyms == ApplyGetTextOnyms

SpecTextOnyms == InitTextOnyms /\ [][NextTextOnyms]_vars

TextReturned == textOnyms.ok
Run == textSiblings[1].data
Fragments == Split(Run, DashSep)
FollowedByIndicateur == Len(textSiblings) > 1 /\ IsIndicateur(textSiblings[2])

\* Do the words occur in text one after the other, without overlap, from
\* position k of words and position from of text on?
RECURSIVE OccurInOrder(_, _, _, _)
OccurInOrder(ws, k, text, from) ==
    IF k > Len(ws) THEN TRUE
    ELSE LET w == ws[k].word
             at == {i \in from..(Len(text) - Len(w) + 1) : SubSeq(text, i, i + Len(w) - 1) = w}
         IN at # {} /\
            OccurInOrder(ws, k + 1, text, (CHOOSE i \in at : \A j \in at : i <= j) + Len(w))

\* C6: no onym of a text run has the empty string as its word, and the words
\* appear in the order in which they stand in the run.
C6_NoEmptyWordInOrder ==
    TextReturned =>
        /\ \A n \in 1..Len(textOnyms.val) : textOnyms.val[n].word # <<>>
        /\ OccurInOrder(textOnyms.val, 1, Run, 1)

\* C7: an onym of a text run carries info only if it came from the last
\* fragment of the run and the run is followed by an annotation marker: it
\* is then the last onym of the list, the only one with info, and the last
\* fragment is not empty.
C7_InfoOnlyOnLastFragment ==
    TextReturned =>
        \A n \in 1..Len(textOnyms.val) :
            "info" \in DOMAIN textOnyms.val[n] =>
                /\ n = Len(textOnyms.val)
                /\ Fragments[Len(Fragments)] # <<>>
                /\ FollowedByIndicateur

---------------------------------------------------------------------------
(* Specification SpecOnyms: getDefinitionOnyms applied to a class          *)
(* "Synonymes" element, the last of its siblings; the label, when there is *)
(* one, stands two siblings before it.                                     *)

Libelle(text) == Tag("LibelleSynonyme", <<Text(text)>>)

LabelTexts ==
    { SynonymeLabel, SynonymesLabel,
      <<"s">> \o Tail(SynonymesLabel),
      <<" ">> \o SynonymesLabel,
      SynonymeLabel \o <<" ">>,
      <<"S", "y", "n", "o", "n", "y", "m", "e", "s">>,
      <<"C", "o", "n", "t", "r", "a", "i", "r", "e", " ", ":">>,
      <<"C", "o", "n", "t", "r", "a", "i", "r", "e", "s", " ", ":">>,
      <<>> }

LabelNodes ==
    {Libelle(t) : t \in LabelTexts}
        \cup {Text(SynonymesLabel), Tag("LibelleSynonyme", <<>>),
              Tag("LibelleSynonyme", <<Tag("", <<Text(SynonymesLabel)>>)>>)}

OnymChildNodes ==
    { Text(DashSep), Text(<<"a", " ", "-", " ", "b">>), Text(<<" ", "-", " ", "d">>),
      Text(<<" ">>), RenvoisC, Indicateur, Tag("Renvois", <<>>) }

OnymBlocks == {Tag("Synonymes", ch) : ch \in SeqsUpTo(OnymChildNodes, MaxOnymChildren)}

InitOnyms ==
    /\ onymSiblings \in
            {<<l, Text(<<NL>>), b>> : l \in LabelNodes, b \in OnymBlocks}
                \cup {<<Text(<<NL>>), b>> : b \in OnymBlocks}
                \cup {<<b>> : b \in OnymBlocks}
    /\ onyms = Pending
    /\ SearchIdle /\ TextIdle /\ DefIdle

ApplyGetDefinitionOnyms ==
    /\ onyms = Pending
    /\ onyms' = getDefinitionOnyms(onymSiblings, Len(onymSiblings))
    /\ UNCHANGED <<onymSiblings, searchVars, textVars, defVars>>

NextOnyms == ApplyGetDefinitionOnyms

SpecOnyms == InitOnyms /\ [][NextOnyms]_vars

\* The label that precedes the block: the element two siblings before it.
LabelNode == onymSiblings[Len(onymSiblings) - 2]
LabelIsText == LabelNode.children # <<>> /\ LabelNode.children[1].type = "text"
LabelText == LabelNode.children[1].data

\* C5: the classifier returns "synonyms" exactly when the text of the label
\* is literally "Synonyme :" or "Synonymes :", and "antonyms" for every other
\* label, mis-cased and padded ones included.
C5_SynonymsIffIntroducer ==
    onyms.ok =>
        onyms.val.type =
            IF LabelIsText /\
               (LabelText = <<"S", "y", "n", "o", "n", "y", "m", "e", " ", ":">> \/
                LabelText = <<"S", "y", "n", "o", "n", "y", "m", "e", "s", " ", ":">>)
            THEN "synonyms" ELSE "antonyms"

C5_Witness ==
    /\ onyms.ok
    /\ onyms.val.type = "synonyms"
    /\ LabelText = SynonymesLabel
    /\ onyms.val.list # <<>>

C5_WitnessPadded ==
    /\ onyms.ok
    /\ onyms.val.type = "antonyms"
    /\ LabelIsText
    /\ LabelText # SynonymesLabel
    /\ Trim(LabelText) = SynonymesLabel

---------------------------------------------------------------------------
(* Specification SpecDefinition: getDefinition applied to the children of  *)
(* one definition container, one step per call of the forEach callback.    *)

BlockAB == Tag("Synonymes", <<Text(<<"a", " ", "-", " ", "b">>)>>)
BlockC == Tag("Synonymes", <<RenvoisC>>)

DefChildNodes ==
    { Text(<<"d">>), Text(<<"e", NL>>), Text(<<NL>>), Text(<<NBSP, ":">>),
      Tag("numDef", <<Text(<<"1", ".", NBSP>>)>>),
      Tag("ExempleDefinition", <<Text(<<"x", " ">>)>>),
      Libelle(SynonymesLabel),
      Libelle(<<"C", "o", "n", "t", "r", "a", "i", "r", "e", "s", " ", ":">>),
      BlockAB, BlockC }

InitDefinition ==
    /\ defContent \in SeqsUpTo(DefChildNodes, MaxDefChildren)
    /\ idx = 1
    /\ definition = NewDefinition
    /\ dpc = "loop"
    /\ SearchIdle /\ TextIdle /\ OnymIdle

\* Lines 139-154: the callback runs on the next child, and may throw.
VisitChild ==
    /\ dpc = "loop"
    /\ idx <= Len(defContent)
    /\ LET step == DefinitionStep(definition, defContent, idx)
       IN IF step.ok
          THEN definition' = step.val /\ idx' = idx + 1 /\ dpc' = "loop"
          ELSE definition' = definition /\ idx' = idx /\ dpc' = "thrown"
    /\ UNCHANGED <<defContent, searchVars, textVars, onymVars>>

\* Lines 155-156: after the last child.
ReturnDefinition ==
    /\ dpc = "loop"
    /\ idx > Len(defContent)
    /\ definition' = FinishDefinition(definition)
    /\ dpc' = "done"
    /\ UNCHANGED <<defContent, idx, searchVars, textVars, onymVars>>

NextDefinition == VisitChild \/ ReturnDefinition

SpecDefinition == InitDefinition /\ [][NextDefinition]_vars

\* The children the callback has run on.
Visited == 1..(idx - 1)

\* C8: the number of a definition is null or a positive integer, never a
\* string.
C8_NumberIsNullOrPositiveInteger ==
    dpc \in {"loop", "done"} =>
        \/ definition.num = JsNull
        \/ definition.num.t = "number" /\ definition.num.v \in Nat \ {0}

\* C9: every text child that is not empty and not pure whitespace has been
\* appended verbatim to the running definition text, even when it holds a
\* newline beside its content.
C9_ContentTextIsAppended ==
    dpc = "loop" =>
        \A k \in Visited :
            (defContent[k].type = "text" /\ Trim(defContent[k].data) # <<>>)
                => Includes(definition.definition, defContent[k].data)

\* The blocks of type t among the first n children, and the list of the last.
BlocksOfType(t, n) ==
    {k \in 1..n :
        /\ defContent[k].type = "tag"
        /\ defContent[k].class = "Synonymes"
        /\ getDefinitionOnyms(defContent, k).val.type = t}

LastListOfType(t, n) ==
    IF BlocksOfType(t, n) = {} THEN <<>>
    ELSE getDefinitionOnyms(defContent, MaxOf(BlocksOfType(t, n))).val.list

\* C10: once children have been processed, synonyms is the list of the last
\* block among them classified as synonyms and antonyms that of the last
\* block classified as antonyms, each empty when there is no such block: a
\* block replaces what an earlier block of its type gave and leaves the field
\* of the other type alone.
C10_LastBlockOfEachTypeWins ==
    dpc \in {"loop", "done"} =>
        /\ definition.synonyms = LastListOfType("synonyms", idx - 1)
        /\ definition.antonyms = LastListOfType("antonyms", idx - 1)

C10_Witness ==
    /\ dpc = "done"
    /\ Cardinality(BlocksOfType("synonyms", Len(defContent))) = 2
    /\ \E k \in BlocksOfType("synonyms", Len(defContent)) :
            /\ getDefinitionOnyms(defContent, k).val.list # <<>>
            /\ getDefinitionOnyms(defContent, k).val.list # definition.synonyms
    /\ definition.synonyms # <<>>

=============================================================================
